---- MODULE Spec2Model ----
(***************************************************************************)
(* Problem.save() of src/problems/models.py: the audit-on-save hook of the *)
(* Problem entity (diff of the tracked fields against the persisted row,   *)
(* one ProblemHistory row per changed field, updated_by stamping, the      *)
(* started_at / closed_at auto-timestamps, the entity write), together     *)
(* with the callers' steps that surround it (constructing, loading and     *)
(* editing an in-memory instance, deleting a row).                         *)
(*                                                                         *)
(* save() touches the database several times: the read of the old row,    *)
(* one INSERT per history record, the entity write.  No transaction is     *)
(* opened in save(), so each is a step of its own; the assignments to the  *)
(* in-memory instance between two database steps belong to the next one.   *)
(*                                                                         *)
(* The clock has moved on by one whenever a call of save() is left, so two *)
(* calls by one caller never share a timestamp.                            *)
(* The run follows one Problem row.                                        *)
(*                                                                         *)
(* A nullable value is None (the empty tuple) or Some(v) (a 1-tuple).      *)
(***************************************************************************)
EXTENDS Integers, Sequences, FiniteSets, TLC

\* ------------------------------------------------------------------ bounds
MaxEdits == 2    \* assignments to instance fields by callers, in one run
MaxSaves == 3    \* calls of save(), in one run

\* ------------------------------------------------------------ value space
None == <<>>
Some(v) == <<v>>

Handles == {1, 2}        \* in-memory Problem instances (one per caller)
Solo == {1}              \* one caller: load / edit / save never overlap
Users == {1}
Pks == {1}               \* the primary key of the Problem that is followed

STATUS_CHOICES == {"new", "engaged", "blocked", "done", "cancelled"}
SCALE_CHOICES == {"task", "mission"}

\* the tracked fields iterated in the order of their names
TrackFieldsByName ==
    <<"chief", "closed_at", "description", "etd", "executive", "priority",
      "scale", "started_at", "status", "title">>

\* track_fields, in the order of the list in save()
track_fields ==
    <<"title", "description", "status", "priority", "chief", "executive",
      "etd", "scale", "started_at", "closed_at">>

TrackedSet == {track_fields[i] : i \in 1..Len(track_fields)}

\* The values a caller assigns to a field of an instance.  started_at and
\* closed_at are derived by save() and never assigned by a caller.  status
\* and scale are CharFields: an assignment takes any string, among them
\* "archived" and "", which are in neither list of choices.
Domain(f) ==
    CASE f = "title" -> {"", "t1"}
      [] f = "description" -> {None, Some("d1")}
      [] f = "status" -> STATUS_CHOICES \cup {"archived"}
      [] f = "priority" -> {0, 1}
      [] f = "chief" -> {None, Some(1)}
      [] f = "executive" -> {None, Some(1)}
      [] f = "etd" -> {None, Some(1)}
      [] f = "scale" -> {""} \cup SCALE_CHOICES
      [] f = "created_by" -> {None, Some(1)}
      [] f = "updated_by" -> {None, Some(1)}

EditableFields ==
    {"title", "description", "status", "priority", "chief", "executive",
     "etd", "scale"}

\* given by the caller only to an instance that has not been saved yet
SuppliedFields == {"created_by", "updated_by"}

\* Problem(): the field defaults of a fresh, unsaved instance
NewInstance ==
    [pk |-> None, title |-> "", description |-> None, scale |-> "",
     chief |-> None, executive |-> None, status |-> "new", priority |-> 0,
     etd |-> None, created_by |-> None, updated_by |-> None,
     created_at |-> None, updated_at |-> None,
     started_at |-> None, closed_at |-> None]

\* what a TextField stores for a value assigned to it: NULL for None, the
\* text itself for a string, str(value) otherwise
StringFields == {"title", "description", "status", "scale"}
NullableFields ==
    {"description", "chief", "executive", "etd", "started_at", "closed_at"}

Text(f, v) == IF f \in StringFields THEN v ELSE ToString(v)

Str(f, v) ==
    IF f \in NullableFields
    THEN IF v = None THEN None ELSE Some(Text(f, v[1]))
    ELSE Some(Text(f, v))

\* ------------------------------------------------------------------ state
VARIABLES
    db,        \* the Problem table: pk -> None | Some(row)
    history,   \* the ProblemHistory table, in insertion order
    now,       \* the clock: the instant the next call of save() reads
    nextPk,    \* the next primary key the database hands out
    inst,      \* handle -> the in-memory Problem instance
    pc,        \* handle -> "idle" | "log" | "write": position inside save()
    old,       \* handle -> the row save() read at its start
    idx,       \* handle -> index into track_fields of the next field to diff
    user,      \* handle -> the user= argument of the save() in progress
    obs,       \* handle -> what the current / last save() call did (observer)
    seen,      \* pk -> what has been persisted for it so far (observer)
    edits,     \* caller assignments so far
    saves,     \* save() calls so far
    view       \* the last derived view that was evaluated, and its result

vars ==
    <<db, history, now, nextPk, inst, pc, old, idx, user, obs, seen, edits,
      saves, view>>

\* outcome: how the last save() ended ("running" while one is under way);
\* emitted: the history rows the save() under way has inserted (kept when it
\* fails); clean: the instance is as its last successful save() left it;
\* resave: the save() under way started on a clean instance;
\* by: the user= argument of the last save() that ended
NoCall ==
    [outcome |-> "none", emitted |-> <<>>, resave |-> FALSE, clean |-> FALSE,
     by |-> None]

NotSeen == [engaged |-> FALSE, terminal_at |-> None]

\* op: "overdue" | "expected_end" | "real_duration"; at: the clock when it
\* was evaluated; result: what it returned
NoView == [op |-> "none", at |-> 0, result |-> None]

Init ==
    /\ db = [p \in Pks |-> None]
    /\ history = <<>>
    /\ now = 1
    /\ nextPk = 1
    /\ inst = [h \in Handles |-> NewInstance]
    /\ pc = [h \in Handles |-> "idle"]
    /\ old = [h \in Handles |-> None]
    /\ idx = [h \in Handles |-> 1]
    /\ user = [h \in Handles |-> None]
    /\ obs = [h \in Handles |-> NoCall]
    /\ seen = [p \in Pks |-> NotSeen]
    /\ edits = 0
    /\ saves = 0
    /\ view = NoView

\* ------------------------------------------------- save(): pure pieces
TERMINAL == {"done", "cancelled"}

\* the comparison written as "if old_value and old_value != new_value": a
\* field that was None never counts as changed
ChangedUnlessNone(o, self, f) ==
    o[f] # self[f] /\ ~(f \in NullableFields /\ o[f] = None)

\* line 264: old_value != new_value, None an ordinary value
Changed(o, self, f) == o[f] # self[f]

\* the index of the first field of track_fields, from i on, that the loop
\* of save() finds changed; Len(track_fields) + 1 when it finds none
NextChanged(o, self, i) ==
    LET C == {j \in i..Len(track_fields) : Changed(o, self, track_fields[j])}
    IN  IF C = {} THEN Len(track_fields) + 1
        ELSE CHOOSE j \in C : \A k \in C : j <= k

\* ProblemHistory.objects.create(problem=self, field=..., old_value=...,
\* new_value=..., changed_by=user), changed_at defaulting to now()
HistoryRow(self, f, o, u, t) ==
    [problem |-> self.pk[1], field |-> f, old_value |-> Str(f, o[f]),
     new_value |-> Str(f, self[f]), changed_by |-> u, changed_at |-> t]

\* the update branch stamping as the create branch does
StampUpdateAsCreate(self, u) ==
    IF u # None THEN [self EXCEPT !.created_by = u, !.updated_by = u] ELSE self

\* lines 274-275: if user: self.updated_by = user
StampUpdate(self, u) ==
    IF u # None THEN [self EXCEPT !.updated_by = u] ELSE self

\* the create branch without line 281
StampCreateOnly(self, u) ==
    IF u # None THEN [self EXCEPT !.created_by = u] ELSE self

\* lines 279-281: if user: created_by = updated_by = user
StampCreate(self, u) ==
    IF u # None THEN [self EXCEPT !.created_by = u, !.updated_by = u] ELSE self

\* started_at set for every active status, not only for engaged
SetStartedActive(self, t) ==
    IF self.status \in {"engaged", "blocked"} /\ self.started_at = None
    THEN [self EXCEPT !.started_at = Some(t)] ELSE self

\* lines 285-286
SetStarted(self, t) ==
    IF self.status = "engaged" /\ self.started_at = None
    THEN [self EXCEPT !.started_at = Some(t)] ELSE self

\* closed_at cleared again when the status is no longer terminal
SetClosedReopen(self, t) ==
    IF self.status \in TERMINAL
    THEN IF self.closed_at = None THEN [self EXCEPT !.closed_at = Some(t)] ELSE self
    ELSE [self EXCEPT !.closed_at = None]

\* closed_at set on every save in a terminal status ("is None" left out)
SetClosedAlways(self, t) ==
    IF self.status \in TERMINAL THEN [self EXCEPT !.closed_at = Some(t)] ELSE self

\* lines 289-290
SetClosed(self, t) ==
    IF self.status \in TERMINAL /\ self.closed_at = None
    THEN [self EXCEPT !.closed_at = Some(t)] ELSE self

AutoTimestamp(self, t) == SetClosed(SetStarted(self, t), t)

\* super().save(): the row written for the instance; auto_now_add sets
\* created_at on INSERT, auto_now sets updated_at on every write, and both
\* are set on the instance as well
Persisted(self, p, t, adding) ==
    [self EXCEPT !.pk = Some(p),
                 !.created_at = IF adding THEN Some(t) ELSE @,
                 !.updated_at = Some(t)]

\* ----------------------------------------------------------- observers
Observe(s, row, t) ==
    [engaged |-> s.engaged \/ row.status = "engaged",
     terminal_at |-> IF s.terminal_at = None /\ row.status \in TERMINAL
                     THEN Some(t) ELSE s.terminal_at]

Begin(h) ==
    [NoCall EXCEPT !.outcome = "running", !.resave = obs[h].clean,
                   !.clean = obs[h].clean]

Ended(h, how, u) ==
    [NoCall EXCEPT !.outcome = how, !.clean = (how = "ok"), !.by = u]

InFlight(p) == \E h \in Handles : pc[h] # "idle" /\ inst[h].pk = Some(p)

\* ------------------------------------------------------- callers' steps
\* Problem.objects.get(pk=p): an instance holding the persisted row
Load(h, p) ==
    /\ pc[h] = "idle"
    /\ db[p] # None
    /\ inst[h] # db[p][1]
    /\ inst' = [inst EXCEPT ![h] = db[p][1]]
    /\ obs' = [obs EXCEPT ![h].clean = FALSE]
    /\ UNCHANGED view
    /\ UNCHANGED <<db, history, now, nextPk, pc, old, idx, user, seen, edits,
                   saves>>

\* instance.f = v
Edit(h, f, v) ==
    /\ pc[h] = "idle"
    /\ edits < MaxEdits
    /\ f \in SuppliedFields => inst[h].pk = None
    /\ v # inst[h][f]
    /\ inst' = [inst EXCEPT ![h][f] = v]
    /\ obs' = [obs EXCEPT ![h].clean = FALSE]
    /\ edits' = edits + 1
    /\ UNCHANGED view
    /\ UNCHANGED <<db, history, now, nextPk, pc, old, idx, user, seen, saves>>

\* Problem.delete(): the row goes, and its history with it (on_delete=CASCADE).
\* Not taken while a save() of that row is between its read and its write.
Delete(p) ==
    /\ db[p] # None
    /\ ~InFlight(p)
    /\ db' = [db EXCEPT ![p] = None]
    /\ history' = SelectSeq(history, LAMBDA r : r.problem # p)
    /\ UNCHANGED view
    /\ UNCHANGED <<now, nextPk, inst, pc, old, idx, user, obs, seen, edits,
                   saves>>

\* --------------------------------------------------------------- save()
\* save(user=u) on an instance without pk: lines 277-293, one INSERT
SaveCreate(h, u) ==
    /\ pc[h] = "idle"
    /\ saves < MaxSaves
    /\ inst[h].pk = None
    /\ nextPk \in Pks
    /\ LET final == AutoTimestamp(StampCreate(inst[h], u), now)
           row == Persisted(final, nextPk, now, TRUE)
       IN  /\ db' = [db EXCEPT ![nextPk] = Some(row)]
           /\ inst' = [inst EXCEPT ![h] = row]
           /\ seen' = [seen EXCEPT ![nextPk] = Observe(@, row, now)]
           /\ obs' = [obs EXCEPT ![h] = Ended(h, "ok", u)]
    /\ nextPk' = nextPk + 1
    /\ saves' = saves + 1
    /\ now' = now + 1
    /\ UNCHANGED view
    /\ UNCHANGED <<history, pc, old, idx, user, edits>>

\* save(user=u) on an instance with pk, line 246: the row is read
SaveGet(h, u) ==
    /\ pc[h] = "idle"
    /\ saves < MaxSaves
    /\ inst[h].pk # None
    /\ db[inst[h].pk[1]] # None
    /\ old' = [old EXCEPT ![h] = db[inst[h].pk[1]]]
    /\ idx' = [idx EXCEPT ![h] = 1]
    /\ pc' = [pc EXCEPT ![h] = "log"]
    /\ user' = [user EXCEPT ![h] = u]
    /\ obs' = [obs EXCEPT ![h] = Begin(h)]
    /\ saves' = saves + 1
    /\ UNCHANGED view
    /\ UNCHANGED <<db, history, now, nextPk, inst, seen, edits>>

\* save() without the read of line 246: Model.save() alone INSERTs the row
\* when its UPDATE matches none
SaveMissingInserts(h, u) ==
    /\ pc[h] = "idle"
    /\ saves < MaxSaves
    /\ inst[h].pk # None
    /\ db[inst[h].pk[1]] = None
    /\ LET p == inst[h].pk[1]
           row == Persisted(AutoTimestamp(StampUpdate(inst[h], u), now), p, now, FALSE)
       IN  /\ db' = [db EXCEPT ![p] = Some(row)]
           /\ inst' = [inst EXCEPT ![h] = row]
           /\ seen' = [seen EXCEPT ![p] = Observe(@, row, now)]
    /\ obs' = [obs EXCEPT ![h] = Ended(h, "ok", u)]
    /\ saves' = saves + 1
    /\ now' = now + 1
    /\ UNCHANGED view
    /\ UNCHANGED <<history, nextPk, pc, old, idx, user, edits>>

\* line 246 when no row has that pk: Problem.DoesNotExist leaves save()
SaveNotFound(h, u) ==
    /\ pc[h] = "idle"
    /\ saves < MaxSaves
    /\ inst[h].pk # None
    /\ db[inst[h].pk[1]] = None
    /\ obs' = [obs EXCEPT ![h] = Ended(h, "notfound", u)]
    /\ saves' = saves + 1
    /\ now' = now + 1
    /\ UNCHANGED view
    /\ UNCHANGED <<db, history, nextPk, inst, pc, old, idx, user, seen,
                   edits>>

\* the loop keeping one record per field: update_or_create(problem, field)
\* overwrites the record an earlier save() left for the field
SaveLogUpsert(h) ==
    /\ pc[h] = "log"
    /\ LET j == NextChanged(old[h][1], inst[h], idx[h])
       IN  /\ j <= Len(track_fields)
           /\ LET r == HistoryRow(inst[h], track_fields[j], old[h][1], user[h], now)
                  kept == SelectSeq(history,
                              LAMBDA x : ~(x.problem = r.problem /\ x.field = r.field))
              IN  /\ history' = Append(kept, r)
                  /\ obs' = [obs EXCEPT ![h].emitted = Append(@, r)]
           /\ idx' = [idx EXCEPT ![h] = j + 1]
    /\ UNCHANGED view
    /\ UNCHANGED <<db, now, nextPk, inst, pc, old, user, seen, edits, saves>>

\* lines 261-271: the loop runs to the next changed field and inserts its
\* history record
SaveLog(h) ==
    /\ pc[h] = "log"
    /\ LET j == NextChanged(old[h][1], inst[h], idx[h])
       IN  /\ j <= Len(track_fields)
           /\ LET r == HistoryRow(inst[h], track_fields[j], old[h][1], user[h], now)
              IN  /\ history' = Append(history, r)
                  /\ obs' = [obs EXCEPT ![h].emitted = Append(@, r)]
           /\ idx' = [idx EXCEPT ![h] = j + 1]
    /\ UNCHANGED view
    /\ UNCHANGED <<db, now, nextPk, inst, pc, old, user, seen, edits, saves>>

\* lines 261-264 with no changed field left: the loop ends
SaveLogDone(h) ==
    /\ pc[h] = "log"
    /\ NextChanged(old[h][1], inst[h], idx[h]) > Len(track_fields)
    /\ pc' = [pc EXCEPT ![h] = "write"]
    /\ UNCHANGED view
    /\ UNCHANGED <<db, history, now, nextPk, inst, old, idx, user, obs, seen,
                   edits, saves>>

\* save() is left: its locals are gone
Return(h) ==
    /\ pc' = [pc EXCEPT ![h] = "idle"]
    /\ old' = [old EXCEPT ![h] = None]
    /\ idx' = [idx EXCEPT ![h] = 1]
    /\ user' = [user EXCEPT ![h] = None]

\* the instance as lines 274-290 leave it, before the write of line 293
Finalized(h) == AutoTimestamp(StampUpdate(inst[h], user[h]), now)

\* the update with lines 283-290 moved below line 293: the timestamps
\* reach the instance and not the row
SaveWriteStampAfter(h) ==
    /\ pc[h] = "write"
    /\ LET p == inst[h].pk[1]
           row == Persisted(StampUpdate(inst[h], user[h]), p, now, FALSE)
       IN  /\ db' = [db EXCEPT ![p] = Some(row)]
           /\ inst' = [inst EXCEPT ![h] = AutoTimestamp(row, now)]
           /\ seen' = [seen EXCEPT ![p] = Observe(@, row, now)]
           /\ obs' = [obs EXCEPT ![h] = Ended(h, "ok", user[h])]
    /\ Return(h)
    /\ now' = now + 1
    /\ UNCHANGED view
    /\ UNCHANGED <<history, nextPk, edits, saves>>

\* lines 273-293 of an update: updated_by, the auto-timestamps, the UPDATE
SaveWrite(h) ==
    /\ pc[h] = "write"
    /\ LET p == inst[h].pk[1]
           final == Finalized(h)
           row == Persisted(final, p, now, FALSE)
       IN  /\ db' = [db EXCEPT ![p] = Some(row)]
           /\ inst' = [inst EXCEPT ![h] = row]
           /\ seen' = [seen EXCEPT ![p] = Observe(@, row, now)]
           /\ obs' = [obs EXCEPT ![h] = Ended(h, "ok", user[h])]
    /\ Return(h)
    /\ now' = now + 1
    /\ UNCHANGED view
    /\ UNCHANGED <<history, nextPk, edits, saves>>

\* line 293 raising (the database rejects or cannot take the UPDATE): the
\* assignments of lines 274-290 stay on the instance, the row is not written
SaveWriteFails(h) ==
    /\ pc[h] = "write"
    /\ LET final == Finalized(h)
       IN  /\ inst' = [inst EXCEPT ![h] = final]
           /\ obs' = [obs EXCEPT ![h] =
                  [Ended(h, "failed", user[h]) EXCEPT !.emitted = obs[h].emitted]]
    /\ Return(h)
    /\ now' = now + 1
    /\ UNCHANGED view
    /\ UNCHANGED <<db, history, nextPk, seen, edits, saves>>

\* ------------------------------------------------------- specifications
Caller(h) ==
    \/ \E p \in Pks : Load(h, p)
    \/ \E f \in EditableFields \cup SuppliedFields :
           \E v \in Domain(f) : Edit(h, f, v)

Save(h) ==
    \/ \E u \in {None} \cup {Some(x) : x \in Users} : SaveCreate(h, u)
    \/ \E u \in {None} \cup {Some(x) : x \in Users} : SaveGet(h, u)
    \/ \E u \in {None} \cup {Some(x) : x \in Users} : SaveNotFound(h, u)
    \/ SaveLog(h)
    \/ SaveLogDone(h)
    \/ SaveWrite(h)

World == (\E p \in Pks : Delete(p))

\* one caller at a time, the database taking every write
Next == (\E h \in Solo : Caller(h) \/ Save(h)) \/ World

Spec == Init /\ [][Next]_vars

\* one caller at a time, the database free to refuse the entity write
NextFault == (\E h \in Solo : Caller(h) \/ Save(h) \/ SaveWriteFails(h)) \/ World

SpecFault == Init /\ [][NextFault]_vars

\* two callers whose steps interleave
NextConc == (\E h \in Handles : Caller(h) \/ Save(h)) \/ World

SpecConc == Init /\ [][NextConc]_vars

\* -------------------------------------------------------- derived views
MaxInstant == 3          \* the clock and the timestamps run over 1..MaxInstant
MaxEtd == 2              \* an etd is a duration of 0..MaxEtd

Instants == 1..MaxInstant
Durations == 0..MaxEtd

Opt(S) == {None} \cup {Some(x) : x \in S}

Latest(S) == CHOOSE x \in S : \A y \in S : y <= x

\* `if x` on a DateTimeField value: None is false, every datetime is true
TruthyDatetime(v) == v # None

\* `if x` on a DurationField value: None and timedelta(0) are false
TruthyTimedelta(v) == v # None /\ v[1] # 0

\* annotate(deadline=F("started_at") + F("etd")): NULL when either is
deadline(r) ==
    IF r.started_at = None \/ r.etd = None
    THEN None
    ELSE Some(r.started_at[1] + r.etd[1])

\* the selection with deadline__lte in place of deadline__lt
OverdueAtDeadline(table, t) ==
    {p \in DOMAIN table :
        /\ table[p] # None
        /\ table[p][1].etd # None
        /\ table[p][1].started_at # None
        /\ table[p][1].status \in {"new", "engaged", "blocked"}
        /\ deadline(table[p][1]) # None
        /\ deadline(table[p][1])[1] <= t}

\* ProblemQuerySet.overdue() evaluated when now() is t: filter(), annotate(),
\* filter(deadline__lt=now()); a NULL deadline matches no comparison
overdue(table, t) ==
    {p \in DOMAIN table :
        /\ table[p] # None
        /\ table[p][1].etd # None
        /\ table[p][1].started_at # None
        /\ table[p][1].status \in {"new", "engaged", "blocked"}
        /\ deadline(table[p][1]) # None
        /\ deadline(table[p][1])[1] < t}

\* Problem.expected_end
expected_end(self) ==
    IF TruthyDatetime(self.created_at) /\ TruthyTimedelta(self.etd)
    THEN Some(self.created_at[1] + self.etd[1])
    ELSE None

\* real_duration without its closed_at branch
RealDurationToNow(self, t) ==
    IF ~TruthyDatetime(self.started_at)
    THEN None
    ELSE Some(t - self.started_at[1])

\* Problem.real_duration read when now() is t
real_duration(self, t) ==
    IF ~TruthyDatetime(self.started_at)
    THEN None
    ELSE IF TruthyDatetime(self.closed_at)
         THEN Some(self.closed_at[1] - self.started_at[1])
         ELSE Some(t - self.started_at[1])

\* A persisted row as create and update can leave it when the clock reads t:
\* its timestamps are instants of the clock, none before created_at and none
\* after t; an engaged row has a started_at and a terminal row a closed_at.
SavedInputs(t) ==
    {[NewInstance EXCEPT !.pk = Some(1), !.status = s, !.etd = e,
                         !.created_at = Some(c), !.started_at = st,
                         !.closed_at = cl,
                         !.updated_at = Some(Latest({c} \cup {st[i] : i \in DOMAIN st}
                                                        \cup {cl[i] : i \in DOMAIN cl}))] :
        s \in Domain("status"), e \in Opt(Durations), c \in 1..t,
        st \in Opt(1..t), cl \in Opt(1..t)}

\* An instance not saved yet: status and etd as the caller gave them
UnsavedInputs ==
    {[NewInstance EXCEPT !.status = s, !.etd = e] :
        s \in Domain("status"), e \in Opt(Durations)}

ViewInputs(t) ==
    UnsavedInputs \cup
    {x \in SavedInputs(t) :
        /\ x.started_at # None => x.created_at[1] <= x.started_at[1]
        /\ x.closed_at # None => x.created_at[1] <= x.closed_at[1]
        /\ x.status = "engaged" => x.started_at # None
        /\ x.status \in TERMINAL => x.closed_at # None}

\* One Problem, persisted or not, held by every handle, at some instant of
\* the clock.  The views read no history, so the log is left empty.
InitViews ==
    /\ now \in Instants
    /\ \E x \in ViewInputs(now) :
          /\ inst = [h \in Handles |-> x]
          /\ db = [p \in Pks |-> IF x.pk = None THEN None ELSE Some(x)]
          /\ nextPk = IF x.pk = None THEN 1 ELSE 2
    /\ history = <<>>
    /\ pc = [h \in Handles |-> "idle"]
    /\ old = [h \in Handles |-> None]
    /\ idx = [h \in Handles |-> 1]
    /\ user = [h \in Handles |-> None]
    /\ obs = [h \in Handles |-> NoCall]
    /\ seen = [p \in Pks |-> NotSeen]
    /\ edits = 0
    /\ saves = 0
    /\ view = NoView

\* Problem.objects.overdue() is evaluated
QueryOverdue ==
    /\ view' = [op |-> "overdue", at |-> now, result |-> overdue(db, now)]
    /\ UNCHANGED <<db, history, now, nextPk, inst, pc, old, idx, user, obs,
                   seen, edits, saves>>

\* instance.expected_end is read
ReadExpectedEnd(h) ==
    /\ pc[h] = "idle"
    /\ view' = [op |-> "expected_end", at |-> now,
                result |-> expected_end(inst[h])]
    /\ UNCHANGED <<db, history, now, nextPk, inst, pc, old, idx, user, obs,
                   seen, edits, saves>>

\* instance.real_duration is read
ReadRealDuration(h) ==
    /\ pc[h] = "idle"
    /\ view' = [op |-> "real_duration", at |-> now,
                result |-> real_duration(inst[h], now)]
    /\ UNCHANGED <<db, history, now, nextPk, inst, pc, old, idx, user, obs,
                   seen, edits, saves>>

\* time passes between two reads
Tick ==
    /\ now < MaxInstant
    /\ now' = now + 1
    /\ UNCHANGED <<db, history, nextPk, inst, pc, old, idx, user, obs, seen,
                   edits, saves, view>>

NextViews ==
    \/ QueryOverdue
    \/ \E h \in Solo : ReadExpectedEnd(h) \/ ReadRealDuration(h)
    \/ Tick

SpecViews == InitViews /\ [][NextViews]_vars

\* ================================================================ claims
Row(p) == db[p][1]

EmittedFields(h) == {obs[h].emitted[i].field : i \in 1..Len(obs[h].emitted)}

TimestampFields == {"started_at", "closed_at"}

\* the history rows a step has added
Added == {history'[i] : i \in (Len(history) + 1)..Len(history')}

\* C1: when the diff loop of an update has ended, the fields of the history
\* records the update has emitted are exactly the tracked fields whose value
\* in the persisted row differs from the value on the instance that is being
\* saved (None compared like any value); nothing else has a record.
C1_DiffExact ==
    \A h \in Handles :
        pc[h] = "write" =>
            EmittedFields(h) =
                {f \in DOMAIN NewInstance :
                    f \in TrackedSet /\ Row(inst[h].pk[1])[f] # inst[h][f]}

\* an update past its loop that logged two fields, one of them set from
\* None, left a tracked field alone, and is about to change the untracked
\* updated_by
C1_Witness ==
    \E h \in Handles :
        /\ pc[h] = "write"
        /\ Cardinality(EmittedFields(h)) = 2
        /\ \E i \in 1..2 : obs[h].emitted[i].old_value = None
        /\ \E i \in 1..2 : obs[h].emitted[i].old_value # None
        /\ Row(inst[h].pk[1]).status = inst[h].status
        /\ user[h] # None
        /\ Row(inst[h].pk[1]).updated_by # user[h]

\* C2: an update whose auto-timestamp rule sets started_at or closed_at has
\* emitted a history record for that field by the time it writes the row.
C2_TimestampLogged ==
    \A h \in Handles :
        pc[h] = "write" =>
            \A f \in TimestampFields :
                (inst[h][f] = None /\ Finalized(h)[f] # None)
                    => f \in EmittedFields(h)

\* C3: no step changes a started_at or closed_at of the persisted row that
\* is not null, and no step adds a history record for such a field.
C3_TimestampsFrozen ==
    [][\A p \in Pks : \A f \in TimestampFields :
          (db[p] # None /\ db'[p] # None /\ db[p][1][f] # None)
              => /\ db'[p][1][f] = db[p][1][f]
                 /\ \A r \in Added : ~(r.problem = p /\ r.field = f)]_vars

\* a Problem closed by one save and reopened (engaged) by a later one, with
\* nothing about closed_at in its history
C3_Witness ==
    \E p \in Pks :
        /\ db[p] # None
        /\ Row(p).status = "engaged"
        /\ Row(p).closed_at # None
        /\ Row(p).started_at # None
        /\ Row(p).closed_at[1] < Row(p).started_at[1]
        /\ \E i \in 1..Len(history) : history[i].field = "status"
        /\ \A i \in 1..Len(history) : history[i].field # "closed_at"

\* C4: the persisted row has a started_at if and only if a row of that
\* Problem has been written with status engaged.
C4_StartedIffEngaged ==
    \A p \in Pks :
        db[p] # None => ((Row(p).started_at # None) <=> seen[p].engaged)

\* a Problem that was engaged and is engaged no longer, and keeps started_at
C4_Witness ==
    \E p \in Pks :
        /\ db[p] # None
        /\ Row(p).status = "blocked"
        /\ seen[p].engaged
        /\ Row(p).started_at # None

\* C5: a persisted row in a terminal status has a closed_at, and the
\* closed_at of a row is the instant of the first save that wrote the
\* Problem in a terminal status, whatever was saved later.
C5_ClosedAtFirstTerminal ==
    \A p \in Pks :
        db[p] # None =>
            /\ Row(p).status \in TERMINAL => Row(p).closed_at # None
            /\ seen[p].terminal_at # None => Row(p).closed_at = seen[p].terminal_at

\* a Problem closed by an update, and saved in a terminal status again later
C5_Witness ==
    \E p \in Pks :
        /\ db[p] # None
        /\ Row(p).status = "cancelled"
        /\ Row(p).closed_at # None
        /\ Row(p).created_at[1] < Row(p).closed_at[1]
        /\ Row(p).closed_at[1] < Row(p).updated_at[1]

\* C6: an update started on an instance that no caller touched since its
\* last successful save emits no history record.
C6_ResaveSilent ==
    \A h \in Handles :
        (pc[h] # "idle" /\ obs[h].resave) => obs[h].emitted = <<>>

\* the second of two updates in succession, the first of which set
\* started_at, past its diff loop
C6_Witness ==
    \E h \in Handles :
        /\ pc[h] = "write"
        /\ obs[h].resave
        /\ old[h][1].started_at # None
        /\ old[h][1].started_at = old[h][1].updated_at
        /\ old[h][1].created_at # old[h][1].updated_at

\* C7: the history records a save() emitted are persisted only if its
\* entity write was: after a save() whose entity write failed, none of the
\* records it emitted is in the history table.
C7_AllOrNothing ==
    \A h \in Handles :
        obs[h].outcome = "failed" =>
            \A i \in 1..Len(obs[h].emitted) :
                \A j \in 1..Len(history) : history[j] # obs[h].emitted[i]

\* C8: at the entity write of an update, every history record the update
\* emitted holds as old_value the value its field has in the row that the
\* write replaces, and the write changes no caller-given field that the
\* update's caller left as the update read it.
C8_AtomicUpdate ==
    [][\A h \in Handles :
          (pc[h] = "write" /\ pc'[h] = "idle") =>
              LET p == inst[h].pk[1]
              IN  /\ \A i \in 1..Len(obs[h].emitted) :
                        LET r == obs[h].emitted[i]
                        IN  r.old_value = Str(r.field, Row(p)[r.field])
                  /\ \A f \in EditableFields :
                        inst[h][f] = old[h][1][f] => db'[p][1][f] = Row(p)[f]]_vars

\* C9: a save() of an instance whose pk has no row ends with NotFound and
\* leaves the Problem table and the history table as they were.
C9_NotFound ==
    [][\A h \in Handles :
          (/\ pc[h] = "idle"
           /\ saves' = saves + 1
           /\ inst[h].pk # None
           /\ db[inst[h].pk[1]] = None)
              => /\ obs'[h].outcome = "notfound"
                 /\ pc'[h] = "idle"
                 /\ db' = db
                 /\ history' = history]_vars

\* a save() that ended NotFound on an edited instance of a deleted row
C9_Witness ==
    \E h \in Handles :
        /\ obs[h].outcome = "notfound"
        /\ inst[h].pk # None
        /\ db[inst[h].pk[1]] = None
        /\ inst[h].status = "engaged"
        /\ inst[h].started_at = None
        /\ history = <<>>

\* C10: the save() that creates a Problem adds no history record; with an
\* actor the row's created_by and updated_by are both that actor, without
\* one both are what the instance held.
C10_Create ==
    [][\A h \in Handles :
          (inst[h].pk = None /\ inst'[h].pk # None /\ saves' = saves + 1) =>
              LET row == db'[inst'[h].pk[1]][1]
                  u == obs'[h].by
              IN  /\ history' = history
                  /\ u # None => (row.created_by = u /\ row.updated_by = u)
                  /\ u = None => /\ row.created_by = inst[h].created_by
                                 /\ row.updated_by = inst[h].updated_by]_vars

\* a Problem created engaged by an actor: started_at set, no history
C10_Witness ==
    \E p \in Pks : \E h \in Handles :
        /\ db[p] # None
        /\ saves = 1
        /\ obs[h].outcome = "ok"
        /\ obs[h].by # None
        /\ Row(p).status = "engaged"
        /\ Row(p).started_at = Row(p).created_at
        /\ Row(p).created_by = obs[h].by
        /\ Row(p).updated_by = obs[h].by
        /\ history = <<>>

\* a Problem created without an actor from an instance given a created_by
C10_WitnessSupplied ==
    \E p \in Pks : \E h \in Handles :
        /\ db[p] # None
        /\ saves = 1
        /\ obs[h].by = None
        /\ Row(p).created_by # None
        /\ Row(p).updated_by = None
        /\ history = <<>>

\* C11: the entity write of an update leaves the row's updated_by equal to
\* the call's actor when there is one, whether or not a tracked field
\* changed, and leaves it alone when there is none; it never changes
\* created_by; every history record the update emitted has changed_by equal
\* to the actor (null when there is none).
C11_UpdateStamp ==
    [][\A h \in Handles :
          (pc[h] = "write" /\ obs'[h].outcome = "ok") =>
              LET p == inst[h].pk[1]
                  u == user[h]
                  e == obs[h].emitted
              IN  /\ u # None => db'[p][1].updated_by = u
                  /\ u = None => db'[p][1].updated_by = Row(p).updated_by
                  /\ db'[p][1].created_by = Row(p).created_by
                  /\ \A i \in 1..Len(e) : e[i].changed_by = u]_vars

\* an update by an actor that changed no tracked field, on a row created
\* without one: updated_by is the actor, created_by still null, no history
C11_Witness ==
    \E p \in Pks : \E h \in Handles :
        /\ db[p] # None
        /\ saves >= 2
        /\ obs[h].outcome = "ok"
        /\ obs[h].by # None
        /\ history = <<>>
        /\ Row(p).updated_by = obs[h].by
        /\ Row(p).created_by = None
        /\ Row(p).updated_at[1] > Row(p).created_at[1]

\* an update without an actor that emitted a record with changed_by null
C11_WitnessNoActor ==
    \E p \in Pks : \E h \in Handles :
        /\ db[p] # None
        /\ obs[h].outcome = "ok"
        /\ obs[h].by = None
        /\ saves = 2
        /\ Len(history) > 0
        /\ \A i \in 1..Len(history) : history[i].changed_by = None
        /\ Row(p).updated_by # None

\* C12: a save() of a Problem whose status or scale is outside the
\* enumerated sets is refused before anything is written, so every persisted
\* Problem has its status in STATUS_CHOICES and its scale in SCALE_CHOICES.
C12_ChoicesEnforced ==
    \A p \in Pks :
        db[p] # None =>
            /\ Row(p).status \in STATUS_CHOICES
            /\ Row(p).scale \in SCALE_CHOICES

\* C13: the overdue selection evaluated at an instant contains a Problem
\* exactly when its etd is present, its started_at is present, its status is
\* new, engaged or blocked, and started_at + etd lies strictly before that
\* instant; so no Problem without started_at and no done or cancelled
\* Problem is ever in it.
C13_Overdue ==
    view.op = "overdue" =>
        /\ \A p \in Pks :
              p \in view.result <=>
                  /\ db[p] # None
                  /\ Row(p).etd # None
                  /\ Row(p).started_at # None
                  /\ Row(p).status \in {"new", "engaged", "blocked"}
                  /\ Row(p).started_at[1] + Row(p).etd[1] < view.at
        /\ \A p \in view.result :
              /\ Row(p).started_at # None
              /\ Row(p).status \notin {"done", "cancelled"}

\* a Problem back at status new, started earlier, selected one instant after
\* its deadline
C13_Witness ==
    /\ view.op = "overdue"
    /\ \E p \in view.result :
          /\ Row(p).status = "new"
          /\ Row(p).etd[1] > 0
          /\ Row(p).started_at[1] + Row(p).etd[1] + 1 = view.at

\* a started, engaged Problem evaluated at its very deadline: not selected
C13_WitnessAtDeadline ==
    /\ view.op = "overdue"
    /\ view.result = {}
    /\ \E p \in Pks :
          /\ db[p] # None
          /\ Row(p).status = "engaged"
          /\ Row(p).etd # None
          /\ Row(p).started_at[1] + Row(p).etd[1] = view.at

\* C14: expected_end is created_at + etd whenever both are present, a
\* zero-length etd included, and absent only when one of them is absent.
C14_ExpectedEnd ==
    view.op = "expected_end" =>
        \A h \in Solo :
            view.result =
                IF inst[h].created_at # None /\ inst[h].etd # None
                THEN Some(inst[h].created_at[1] + inst[h].etd[1])
                ELSE None

\* C15: real_duration is absent when started_at is absent; it is closed_at -
\* started_at when both are present, whatever the clock reads; it is the
\* clock's reading - started_at when started_at is present and closed_at is
\* not.
C15_RealDuration ==
    view.op = "real_duration" =>
        \A h \in Solo :
            view.result =
                IF inst[h].started_at = None
                THEN None
                ELSE IF inst[h].closed_at # None
                     THEN Some(inst[h].closed_at[1] - inst[h].started_at[1])
                     ELSE Some(view.at - inst[h].started_at[1])

\* a closed Problem read after its closing: the duration is the closed one,
\* shorter than the time since it started
C15_Witness ==
    /\ view.op = "real_duration"
    /\ \E h \in Solo :
          /\ inst[h].started_at # None
          /\ inst[h].closed_at # None
          /\ inst[h].closed_at[1] > inst[h].started_at[1]
          /\ view.at > inst[h].closed_at[1]
          /\ view.result = Some(inst[h].closed_at[1] - inst[h].started_at[1])

\* a running Problem: the duration is the time since it started
C15_WitnessRunning ==
    /\ view.op = "real_duration"
    /\ \E h \in Solo :
          /\ inst[h].status = "engaged"
          /\ inst[h].started_at # None
          /\ inst[h].closed_at = None
          /\ view.result = Some(view.at - inst[h].started_at[1])
          /\ view.result[1] > 0

\* the place of a field in the order title, description, status, priority,
\* chief, executive, etd, scale, started_at, closed_at
Place(f) ==
    CASE f = "title" -> 1
      [] f = "description" -> 2
      [] f = "status" -> 3
      [] f = "priority" -> 4
      [] f = "chief" -> 5
      [] f = "executive" -> 6
      [] f = "etd" -> 7
      [] f = "scale" -> 8
      [] f = "started_at" -> 9
      [] f = "closed_at" -> 10

\* C16: the history records of one update are emitted in the order of the
\* tracked-field list: of any two of them, the one whose field comes
\* earlier in the list is inserted first, and no field has two records.
C16_EmitOrder ==
    \A h \in Handles :
        LET e == obs[h].emitted
            n == Len(history) - Len(e)
        IN  pc[h] # "idle" =>
                /\ \A i, j \in 1..Len(e) :
                      i < j => Place(e[i].field) < Place(e[j].field)
                /\ n >= 0
                /\ \A i \in 1..Len(e) : history[n + i] = e[i]

\* an update that has emitted a record for two fields, the later one not
\* the next in the list
C16_Witness ==
    \E h \in Handles :
        /\ pc[h] = "write"
        /\ Len(obs[h].emitted) = 2
        /\ obs[h].emitted[1].field = "description"
        /\ obs[h].emitted[2].field = "scale"
        /\ history = obs[h].emitted

\* C17: the audit log is append-only under create and update: every step of
\* a save() leaves each history record that was there in its place and
\* unchanged, and removes none.
C17_AppendOnly ==
    [][(\A p \in Pks : db[p] # None => db'[p] # None) =>
          /\ Len(history') >= Len(history)
          /\ \A i \in 1..Len(history) : history'[i] = history[i]]_vars

\* two updates have each logged a change of the same field: both records
\* are there, the older one first
C17_Witness ==
    /\ Len(history) = 2
    /\ history[1].field = history[2].field
    /\ history[1].problem = history[2].problem
    /\ history[1].changed_at < history[2].changed_at
    /\ history[1].new_value = history[2].old_value

\* C18: in every persisted state reached by creates and updates whose
\* callers assign only status and the user-supplied fields, under a clock
\* that never goes back, a Problem with both started_at and closed_at has
\* started_at <= closed_at, so the real_duration of a closed Problem is
\* never negative.
C18_StartedBeforeClosed ==
    \A p \in Pks :
        (db[p] # None /\ Row(p).started_at # None /\ Row(p).closed_at # None) =>
            /\ Row(p).started_at[1] <= Row(p).closed_at[1]
            /\ real_duration(Row(p), now)[1] >= 0

====
